---- MODULE Spec2Model ----
(***************************************************************************)
(* Model of ccb: the value classes of ccb/activities.py (Reservation,      *)
(* Hour, Schedule, Button, Activity), the configuration reader JsonConfig  *)
(* of ccb/main.py and the script under `if __name__ == '__main__'`.        *)
(*                                                                         *)
(* Python values: a comparison method returns one of True, False or None   *)
(* (a method that falls off its end returns None); they are the strings    *)
(* "True", "False" and "None" here.  An exception is the string naming its *)
(* class.                                                                  *)
(***************************************************************************)
EXTENDS Integers, Sequences, FiniteSets, TLC

VARIABLES
    hq,          \* Hour operations: the three "hh:mm" tokens the operators are applied to
    hres,        \* Hour operations: the value each operator returned ("unset" before the call)
    data,        \* JsonConfig._data["days"]: the configuration document
    _days,       \* JsonConfig._days
    _hours,      \* JsonConfig._hours
    _classes,    \* JsonConfig._classes
    calls,       \* JsonConfig: the accessor calls made so far, each with how it ended
    pc,          \* position of the running script
    raised,      \* the exception that ended the script, "none" while it runs
    page,        \* the rows of the activities table the site shows for the day
    activities,  \* the list get_activities() returned
    idx,         \* the booking loop: index of the next element of activities
    attempts,    \* the booking loop: the book() calls made, each with what it returned
    driverLog    \* what the browser has been asked to do, in order

vars == <<hq, hres, data, _days, _hours, _classes, calls, pc, raised,
          page, activities, idx, attempts, driverLog>>

hourVars == <<hq, hres>>
configVars == <<data, _days, _hours, _classes, calls>>
runVars == <<pc, raised, page, activities, idx, attempts, driverLog>>

----------------------------------------------------------------------------
(* Bounds of the model.                                                    *)

MaxHH == 2       \* hour tokens of the Hour operations are 00..MaxHH
MaxMM == 2       \* minute tokens of the Hour operations are 00..MaxMM

----------------------------------------------------------------------------
(* Python truth values.                                                    *)

PyBool(b) == IF b THEN "True" ELSE "False"

Truthy(v) == v = "True"

PyNot(v) == IF Truthy(v) THEN "False" ELSE "True"

----------------------------------------------------------------------------
(* activities.py: Hour.  A token "hh:mm" is the pair <<hh, mm>>.           *)

Hour(h) == [hour |-> h[1], minutes |-> h[2]]

Hour_eq(self, other) ==
    IF self.hour = other.hour
    THEN PyBool(self.minutes = other.minutes)
    ELSE "False"

Hour_le(self, other) ==
    IF self.hour <= other.hour
    THEN "True"
    ELSE IF self.hour = other.hour
         THEN PyBool(self.minutes <= other.minutes)
         ELSE "None"

Hour_lt_strictMinutesDropped(self, other) ==
    IF self.hour < other.hour
    THEN "True"
    ELSE IF self.hour = other.hour
         THEN PyBool(self.minutes <= other.minutes)
         ELSE "None"

Hour_lt(self, other) ==
    IF self.hour < other.hour
    THEN "True"
    ELSE IF self.hour = other.hour
         THEN PyBool(self.minutes < other.minutes)
         ELSE "None"

Hour_ge(self, other) == PyNot(Hour_le(self, other))

Hour_gt(self, other) == PyNot(Hour_lt(self, other))

----------------------------------------------------------------------------
(* activities.py: Schedule.  A token "<start> - <end>" is the pair of its  *)
(* two hour tokens.                                                        *)

Schedule(sch) == [start |-> Hour(sch[1]), end |-> Hour(sch[2])]

\* self.start < item < self.end  is  (self.start < item) and (item < self.end):
\* the first operand when it is falsy, the second otherwise.
Schedule_contains(self, item) ==
    LET first == Hour_lt(self.start, item)
    IN  IF Truthy(first) THEN Hour_lt(item, self.end) ELSE first

\* `item in schedule`: the operator turns what __contains__ returned into a bool.
HourInSchedule(item, schedule) == Truthy(Schedule_contains(schedule, item))

----------------------------------------------------------------------------
(* The Hour and Schedule operations applied to arbitrary tokens.           *)

HourTokens == (0..MaxHH) \X (0..MaxMM)

Unset == "unset"

HourOps == {"lt_ab", "lt_bc", "lt_ac", "eq", "gt", "le", "ge", "contains"}

HourInit ==
    /\ hq \in [a : HourTokens, b : HourTokens, c : HourTokens]
    /\ hres = [op \in HourOps |-> Unset]

\* a < b, b < c and a < c
CallLt ==
    /\ hres["lt_ab"] = Unset
    /\ hres' = [hres EXCEPT !["lt_ab"] = Hour_lt(Hour(hq.a), Hour(hq.b)),
                            !["lt_bc"] = Hour_lt(Hour(hq.b), Hour(hq.c)),
                            !["lt_ac"] = Hour_lt(Hour(hq.a), Hour(hq.c))]
    /\ UNCHANGED <<hq, data, _days, _hours, _classes, calls,
                   pc, raised, page, activities, idx, attempts, driverLog>>

\* a == b
CallEq ==
    /\ hres["eq"] = Unset
    /\ hres' = [hres EXCEPT !["eq"] = Hour_eq(Hour(hq.a), Hour(hq.b))]
    /\ UNCHANGED <<hq, data, _days, _hours, _classes, calls,
                   pc, raised, page, activities, idx, attempts, driverLog>>

\* a > b
CallGt ==
    /\ hres["gt"] = Unset
    /\ hres' = [hres EXCEPT !["gt"] = Hour_gt(Hour(hq.a), Hour(hq.b))]
    /\ UNCHANGED <<hq, data, _days, _hours, _classes, calls,
                   pc, raised, page, activities, idx, attempts, driverLog>>

\* a <= b
CallLe ==
    /\ hres["le"] = Unset
    /\ hres' = [hres EXCEPT !["le"] = Hour_le(Hour(hq.a), Hour(hq.b))]
    /\ UNCHANGED <<hq, data, _days, _hours, _classes, calls,
                   pc, raised, page, activities, idx, attempts, driverLog>>

\* a >= b
CallGe ==
    /\ hres["ge"] = Unset
    /\ hres' = [hres EXCEPT !["ge"] = Hour_ge(Hour(hq.a), Hour(hq.b))]
    /\ UNCHANGED <<hq, data, _days, _hours, _classes, calls,
                   pc, raised, page, activities, idx, attempts, driverLog>>

\* b in Schedule("<a> - <c>")
CallContains ==
    /\ hres["contains"] = Unset
    /\ hres' = [hres EXCEPT !["contains"] =
                   PyBool(HourInSchedule(Hour(hq.b), Schedule(<<hq.a, hq.c>>)))]
    /\ UNCHANGED <<hq, data, _days, _hours, _classes, calls,
                   pc, raised, page, activities, idx, attempts, driverLog>>

----------------------------------------------------------------------------
(* activities.py: Reservation.  A token "(<places>/<total>)" is the pair   *)
(* <<places, total>>.                                                      *)

Reservation(reserva) == [places |-> reserva[1], total |-> reserva[2]]

Reservation_is_free_orFull(self) == self.places <= self.total

Reservation_is_free(self) == self.places < self.total

----------------------------------------------------------------------------
(* activities.py: ButtonIcon and Button.                                   *)
(* The first argument of Button is a str (the text of the cell) or a       *)
(* WebElement (the <a> of the cell): [kind, text, id]. The icon argument   *)
(* is None ("None") or the class attribute of the cell's <span>.           *)

PLUS == "PLUS"

MINUS == "MINUS"

NoElement == 0

StrArg(text) == [kind |-> "str", text |-> text, id |-> NoElement]

WebElement(id) == [kind |-> "WebElement", text |-> "", id |-> id]

\* 'plus' in ico, over the class attributes the site gives its icons
SpanClassPlus == "glyphicon glyphicon-plus"

SpanClassMinus == "glyphicon glyphicon-minus"

PlusIn(ico) == ico \in {SpanClassPlus, "plus"}

Button_icon_setter(ico) == IF PlusIn(ico) THEN PLUS ELSE MINUS

Button(element, icon) ==
    IF element.kind = "str"
    THEN [_enabled |-> FALSE, _icon |-> icon, element |-> NoElement]
    ELSE [_enabled |-> TRUE, _icon |-> Button_icon_setter(icon), element |-> element.id]

Button_is_enabled(self) == self._enabled

DriverOp(op, arg) == [op |-> op, arg |-> arg]

NoException == "none"

\* Button.click(): the log of what it asked of the browser, the exception that
\* leaves it, and whether it warned.  clickRaises: element.click() raises;
\* scriptRaises: driver.execute_script() raises.  The bare except catches what
\* element.click() raises; what execute_script raises inside the handler
\* leaves click() once the finally clause has run.
Button_click(self, clickRaises, scriptRaises) ==
    IF Button_is_enabled(self)
    THEN IF ~clickRaises
         THEN [log |-> <<DriverOp("element.click", self.element)>>,
               clickFailed |-> FALSE, scriptFailed |-> FALSE,
               raised |-> NoException, warned |-> FALSE]
         ELSE [log |-> <<DriverOp("element.click", self.element),
                         DriverOp("execute_script", self.element)>>,
               clickFailed |-> TRUE, scriptFailed |-> scriptRaises,
               raised |-> IF scriptRaises THEN "WebDriverException" ELSE NoException,
               warned |-> FALSE]
    ELSE [log |-> <<>>, clickFailed |-> FALSE, scriptFailed |-> FALSE,
          raised |-> NoException, warned |-> TRUE]

----------------------------------------------------------------------------
(* activities.py: Activities, Activity and its four subclasses.            *)

CROSSFIT == "Crossfit"

OPEN_BOX == "Open Box"

WEIGHTLIFTING == "Halterofília"

CALISTHENICS == "Calisteni"

Activities == {CROSSFIT, OPEN_BOX, WEIGHTLIFTING, CALISTHENICS}

\* OpenBox(**arguments), Crossfit(**arguments), ...: an Activity whose name
\* property returns the constant of its subclass.
Activity(name, schedule, reservation, button) ==
    [name |-> name, schedule |-> schedule, reservation |-> reservation, button |-> button]

\* Activity.book(): what it returns ("raise" when an exception leaves it), the
\* exception, and what Button.click() asked of the browser.
Activity_book(self, clickRaises, scriptRaises) ==
    IF Reservation_is_free(self.reservation)
    THEN LET c == Button_click(self.button, clickRaises, scriptRaises)
         IN  [ret |-> IF c.raised = NoException THEN "True" ELSE "raise",
              raised |-> c.raised, click |-> c]
    ELSE [ret |-> "False", raised |-> NoException,
          click |-> [log |-> <<>>, clickFailed |-> FALSE, scriptFailed |-> FALSE,
                     raised |-> NoException, warned |-> FALSE]]

\* A book() call as the script's record of it: the index of the activity, what
\* the call returned and what Button.click() did in it.
Attempt(i, b) == [idx |-> i, ret |-> b.ret, click |-> b.click]

----------------------------------------------------------------------------
(* main.py: CLASS_MAP, ClassError, NoHoursError and JsonConfig.            *)
(* The "days" object of the configuration is a sequence of                 *)
(* [day, hours], hours a sequence of [hour, classes], classes a sequence   *)
(* of class tokens, each in document order; the keys of an object are      *)
(* distinct.  A day token "dd/mm/yyyy" is the triple <<dd, mm, yyyy>>.     *)

CLASS_MAP_pageNames ==
    (OPEN_BOX :> OPEN_BOX) @@ (CROSSFIT :> CROSSFIT) @@
    (CALISTHENICS :> CALISTHENICS) @@ (WEIGHTLIFTING :> WEIGHTLIFTING)

CLASS_MAP ==
    ("Open Box" :> OPEN_BOX) @@ ("Crossfit" :> CROSSFIT) @@
    ("Calisthenics" :> CALISTHENICS) @@ ("Weightlifting" :> WEIGHTLIFTING)

\* ClassError(class_).message lists list(CLASS_MAP.keys())
ClassError_listed == DOMAIN CLASS_MAP

IsLeap(y) == (y % 4 = 0 /\ y % 100 # 0) \/ y % 400 = 0

DaysInMonth(y, m) ==
    IF m = 2 THEN (IF IsLeap(y) THEN 29 ELSE 28)
    ELSE IF m \in {4, 6, 9, 11} THEN 30 ELSE 31

\* dt.date(int(y), int(m), int(d)), or the ValueError _parse_day raises in its place
JsonConfig_parse_day(day) ==
    LET d == day[1]
        m == day[2]
        y == day[3]
    IN  IF y \in 1..9999 /\ m \in 1..12 /\ d >= 1 /\ d <= DaysInMonth(y, m)
        THEN [ok |-> TRUE, date |-> [year |-> y, month |-> m, day |-> d]]
        ELSE [ok |-> FALSE, date |-> [year |-> 0, month |-> 0, day |-> 0]]

\* The lists of a JsonConfig with how the running call has ended so far.
ConfigState(days, hours, classes) ==
    [_days |-> days, _hours |-> hours, _classes |-> classes,
     raised |-> NoException, listed |-> {}]

RECURSIVE GetClasses_classLoop(_, _)
\* for wanted_class in self._data["days"][day][hour]
GetClasses_classLoop(cls, st) ==
    IF cls = <<>> \/ st.raised # NoException
    THEN st
    ELSE IF Head(cls) \notin DOMAIN CLASS_MAP
         THEN [st EXCEPT !.raised = "ClassError", !.listed = ClassError_listed]
         ELSE GetClasses_classLoop(
                  Tail(cls), [st EXCEPT !._classes = Append(@, CLASS_MAP[Head(cls)])])

RECURSIVE GetClasses_hourLoop(_, _)
\* for hour in self._data["days"][day]
GetClasses_hourLoop(hrs, st) ==
    IF hrs = <<>> \/ st.raised # NoException
    THEN st
    ELSE GetClasses_hourLoop(
             Tail(hrs),
             GetClasses_classLoop(
                 Head(hrs).classes,
                 [st EXCEPT !._hours = Append(@, Hour(Head(hrs).hour))]))

RECURSIVE GetClasses_dayLoop(_, _)
\* for day in self._data["days"]
GetClasses_dayLoop(ds, st) ==
    IF ds = <<>> \/ st.raised # NoException
    THEN st
    ELSE LET parsed == JsonConfig_parse_day(Head(ds).day)
         IN  IF ~parsed.ok
             THEN [st EXCEPT !.raised = "ValueError"]
             ELSE GetClasses_dayLoop(
                      Tail(ds),
                      GetClasses_hourLoop(
                          Head(ds).hours,
                          [st EXCEPT !._days = Append(@, parsed.date)]))

JsonConfig_get_classes(d, st) == GetClasses_dayLoop(d, st)

JsonConfig_wanted_classes(d, st) ==
    IF Len(st._classes) = 0 THEN JsonConfig_get_classes(d, st) ELSE st

JsonConfig_wanted_hours(d, st) ==
    LET s1 == IF Len(st._hours) = 0 THEN JsonConfig_get_classes(d, st) ELSE st
    IN  IF s1.raised = NoException /\ Len(s1._hours) = 0
        THEN [s1 EXCEPT !.raised = "NoHoursError"]
        ELSE s1

JsonConfig_wanted_days(d, st) ==
    IF Len(st._days) = 0 THEN JsonConfig_get_classes(d, st) ELSE st

----------------------------------------------------------------------------
(* The configuration documents of the model: every document of at most n   *)
(* entries (days, hours and class tokens together), grown one entry at a   *)
(* time at its end.                                                        *)

DayTokens == {<<22, 11, 2020>>, <<31, 11, 2020>>}

ConfigHourTokens == {<<11, 0>>, <<15, 0>>}

ClassTokens == {"Crossfit", "Calisthenics", "Calisteni"}

SeqRange(s) == {s[i] : i \in 1..Len(s)}

ExtendDoc(doc) ==
    LET n == Len(doc)
        newDay == {Append(doc, [day |-> t, hours |-> <<>>]) :
                      t \in DayTokens \ {doc[i].day : i \in 1..n}}
        newHour ==
            IF n = 0 THEN {}
            ELSE {[doc EXCEPT ![n].hours = Append(@, [hour |-> h, classes |-> <<>>])] :
                     h \in ConfigHourTokens \ {e.hour : e \in SeqRange(doc[n].hours)}}
        newClass ==
            IF n = 0 \/ doc[n].hours = <<>> THEN {}
            ELSE {[doc EXCEPT ![n].hours[Len(doc[n].hours)].classes = Append(@, c)] :
                     c \in ClassTokens}
    IN  newDay \cup newHour \cup newClass

RECURSIVE DocsUpTo(_)
DocsUpTo(n) ==
    IF n = 0 THEN {<<>>}
    ELSE LET prev == DocsUpTo(n - 1)
         IN  prev \cup UNION {ExtendDoc(doc) : doc \in prev}

----------------------------------------------------------------------------
(* main.py: CCB.  A row (<tr>) of the activities table is                  *)
(* [kind, ncells, horario, actividad, reservas, reservar]: the texts of    *)
(* its first three cells and, for the fourth, its text and the class of    *)
(* its <span>.  The <a> of row i is the element i.                         *)

Row(kind, ncells, horario, actividad, reservas, text, span) ==
    [kind |-> kind, ncells |-> ncells, horario |-> horario, actividad |-> actividad,
     reservas |-> reservas, reservar |-> [text |-> text, span |-> span]]

\* pos == 3: a cell with text gives a Button built from the text, a cell
\* without gives a Button built from its <a> and the class of its <span>
CCB_parse_table_elem_button(cell, id) ==
    IF cell.text # ""
    THEN Button(StrArg(cell.text), "None")
    ELSE Button(WebElement(id), cell.span)

NoneActivity ==
    [none |-> TRUE, name |-> "None", schedule |-> Schedule(<<<<0, 0>>, <<0, 0>>>>),
     reservation |-> Reservation(<<0, 0>>),
     button |-> [_enabled |-> FALSE, _icon |-> "None", element |-> NoElement]]

CCB_get_activity(arguments, name) ==
    IF name \in Activities
    THEN [none |-> FALSE] @@
         Activity(name, arguments.schedule, arguments.reservation, arguments.button)
    ELSE NoneActivity

RECURSIVE GetActivities_rowLoop(_, _, _)
\* for i, row in enumerate(table.find_elements(By.CSS_SELECTOR, 'tr')); i counts from 0
GetActivities_rowLoop(table, i, acc) ==
    IF i >= Len(table)
    THEN acc
    ELSE LET row == table[i + 1]
         IN  IF i > 1 /\ ~(row.ncells > 4)
             THEN GetActivities_rowLoop(
                      table, i + 1,
                      Append(acc,
                             CCB_get_activity(
                                 [schedule |-> Schedule(row.horario),
                                  reservation |-> Reservation(row.reservas),
                                  button |-> CCB_parse_table_elem_button(row.reservar, i + 1)],
                                 row.actividad)))
             ELSE GetActivities_rowLoop(table, i + 1, acc)

CCB_get_activities(table) == GetActivities_rowLoop(table, 0, <<>>)

----------------------------------------------------------------------------
(* The tables of the model.                                                *)

MaxRows == 2     \* activity rows of a table, after its two header rows

RowSchedules ==
    {<<<<14, 0>>, <<16, 0>>>>, <<<<10, 0>>, <<12, 0>>>>, <<<<15, 0>>, <<16, 0>>>>}

RowNames == {CROSSFIT, CALISTHENICS, "Yoga"}

RowReservations == {<<0, 1>>, <<1, 1>>}

\* the fourth cell: "Completo", a plus icon or a minus icon
RowControls == {<<"Completo", "">>, <<"", SpanClassPlus>>, <<"", SpanClassMinus>>}

HeaderRow == Row("header", 1, <<<<0, 0>>, <<0, 0>>>>, "", <<0, 0>>, "", "")

\* a row with a fifth cell: the user is registered in the class
RegisteredRow ==
    Row("activity", 5, <<<<14, 0>>, <<16, 0>>>>, CROSSFIT, <<1, 1>>, "", SpanClassMinus)

ActivityRows ==
    {Row("activity", 4, h, a, r, c[1], c[2]) :
        h \in RowSchedules, a \in RowNames, r \in RowReservations, c \in RowControls}
    \cup {RegisteredRow}

Pages ==
    {<<HeaderRow, HeaderRow>> \o body :
        body \in UNION {[1..n -> ActivityRows] : n \in 0..MaxRows}}

----------------------------------------------------------------------------
(* States in which a part of the model is at rest.                         *)

HourIdle ==
    /\ hq = [a |-> <<0, 0>>, b |-> <<0, 0>>, c |-> <<0, 0>>]
    /\ hres = [op \in HourOps |-> Unset]

\* JsonConfig.__init__: the document is read and the three lists are empty
JsonConfig_init(d) ==
    /\ data = d
    /\ _days = <<>>
    /\ _hours = <<>>
    /\ _classes = <<>>
    /\ calls = <<>>

RunIdle ==
    /\ raised = NoException
    /\ page = <<>>
    /\ activities = <<>>
    /\ idx = 1
    /\ attempts = <<>>
    /\ driverLog = <<>>

\* The lists of the JsonConfig as the state a call starts from.
CurrentConfig == ConfigState(_days, _hours, _classes)

\* A call of an accessor has ended in st: the lists are what it left, and the
\* call is recorded with the exception it raised.
ConfigCallEnds(fn, st) ==
    /\ _days' = st._days
    /\ _hours' = st._hours
    /\ _classes' = st._classes
    /\ calls' = Append(calls, [fn |-> fn, raised |-> st.raised, listed |-> st.listed])
    /\ UNCHANGED data

----------------------------------------------------------------------------
(* main.py: the script under `if __name__ == '__main__'`.                  *)

MaxRunDoc == 3   \* entries of the configuration document of a run

WantedHourToken == <<15, 0>>

RunInit ==
    /\ HourIdle
    /\ \E d \in DocsUpTo(MaxRunDoc) : JsonConfig_init(d)
    /\ RunIdle
    /\ pc = "login"

\* ccb.login_page(); ccb.submit(username, password)
Login ==
    /\ pc = "login"
    /\ driverLog' = driverLog \o <<DriverOp("login_page", 0), DriverOp("submit", 0)>>
    /\ pc' = "wanted_days"
    /\ UNCHANGED <<hourVars, configVars, raised, page, activities, idx, attempts>>

\* days = config_file.wanted_days()
WantedDays ==
    /\ pc = "wanted_days"
    /\ LET st == JsonConfig_wanted_days(data, CurrentConfig)
       IN  /\ ConfigCallEnds("wanted_days", st)
           /\ raised' = st.raised
           /\ pc' = IF st.raised = NoException THEN "get_day" ELSE "error"
    /\ UNCHANGED <<hourVars, page, activities, idx, attempts, driverLog>>

\* ccb.get_day(days[0]): the site answers the click on the day with its table
GetDay ==
    /\ pc = "get_day"
    /\ IF Len(_days) = 0
       THEN /\ raised' = "IndexError"
            /\ pc' = "error"
            /\ UNCHANGED <<page, driverLog>>
       ELSE /\ \E p \in Pages : page' = p
            /\ driverLog' = Append(driverLog, DriverOp("get_day", _days[1].day))
            /\ pc' = "get_activities"
            /\ UNCHANGED raised
    /\ UNCHANGED <<hourVars, configVars, activities, idx, attempts>>

\* activities = ccb.get_activities()
GetActivities ==
    /\ pc = "get_activities"
    /\ activities' = CCB_get_activities(page)
    /\ driverLog' = Append(driverLog, DriverOp("find_elements", 0))
    /\ pc' = "wanted_classes"
    /\ UNCHANGED <<hourVars, configVars, raised, page, idx, attempts>>

\* wanted_activities = config_file.wanted_classes()
WantedClasses ==
    /\ pc = "wanted_classes"
    /\ LET st == JsonConfig_wanted_classes(data, CurrentConfig)
       IN  /\ ConfigCallEnds("wanted_classes", st)
           /\ raised' = st.raised
           /\ pc' = IF st.raised = NoException THEN "wanted_hours" ELSE "error"
    /\ UNCHANGED <<hourVars, page, activities, idx, attempts, driverLog>>

\* wanted_hours = config_file.wanted_hours(); wanted_hour = act.Hour('15:00')
WantedHours ==
    /\ pc = "wanted_hours"
    /\ LET st == JsonConfig_wanted_hours(data, CurrentConfig)
       IN  /\ ConfigCallEnds("wanted_hours", st)
           /\ raised' = st.raised
           /\ pc' = IF st.raised = NoException THEN "loop" ELSE "error"
    /\ UNCHANGED <<hourVars, page, activities, idx, attempts, driverLog>>

\* The conditions of the loop body on an activity that is not None:
\* activity.name in wanted_activities, then wanted_hour in activity.schedule.
LoopSelects(activity, wanted_activities, wanted_hour) ==
    /\ activity.name \in SeqRange(wanted_activities)
    /\ HourInSchedule(wanted_hour, activity.schedule)

\* One iteration of `for activity in activities`.
LoopStep ==
    /\ pc = "loop"
    /\ idx <= Len(activities)
    /\ LET activity == activities[idx]
       IN  IF activity.none
           THEN /\ raised' = "AttributeError"
                /\ pc' = "error"
                /\ UNCHANGED <<idx, attempts, driverLog>>
           ELSE IF LoopSelects(activity, _classes, Hour(WantedHourToken))
           THEN \E clickRaises \in BOOLEAN, scriptRaises \in BOOLEAN :
                    LET b == Activity_book(activity, clickRaises, scriptRaises)
                    IN  /\ attempts' = Append(attempts, Attempt(idx, b))
                        /\ driverLog' = driverLog \o b.click.log
                        /\ raised' = b.raised
                        /\ pc' = IF b.raised = NoException THEN "loop" ELSE "error"
                        /\ idx' = IF b.raised = NoException THEN idx + 1 ELSE idx
           ELSE /\ idx' = idx + 1
                /\ UNCHANGED <<pc, raised, attempts, driverLog>>
    /\ UNCHANGED <<hourVars, configVars, page, activities>>

\* The loop has run out of activities: the script ends.
LoopEnd ==
    /\ pc = "loop"
    /\ idx > Len(activities)
    /\ pc' = "done"
    /\ UNCHANGED <<hourVars, configVars, raised, page, activities, idx, attempts, driverLog>>

Next ==
    \/ Login
    \/ WantedDays
    \/ GetDay
    \/ GetActivities
    \/ WantedClasses
    \/ WantedHours
    \/ LoopStep
    \/ LoopEnd

Spec == RunInit /\ [][Next]_vars

----------------------------------------------------------------------------
(* The Hour and Schedule operations on their own.                          *)

SpecHourInit ==
    /\ HourInit
    /\ JsonConfig_init(<<>>)
    /\ RunIdle
    /\ pc = "hour"

HourNext ==
    \/ CallLt
    \/ CallEq
    \/ CallGt
    \/ CallLe
    \/ CallGe
    \/ CallContains

SpecHour == SpecHourInit /\ [][HourNext]_vars

----------------------------------------------------------------------------
(* Activity.book() on its own: one activity of any reservation counter and *)
(* any fourth cell, built as get_activities() builds it.                   *)

MaxPlaces == 3   \* the two numbers of a reservation counter are 0..MaxPlaces

BookActivities ==
    {CCB_get_activity(
         [schedule |-> Schedule(<<<<14, 0>>, <<16, 0>>>>),
          reservation |-> Reservation(r),
          button |-> CCB_parse_table_elem_button([text |-> c[1], span |-> c[2]], 1)],
         name) :
        r \in (0..MaxPlaces) \X (0..MaxPlaces), c \in RowControls, name \in Activities}

SpecBookInit ==
    /\ HourIdle
    /\ JsonConfig_init(<<>>)
    /\ raised = NoException
    /\ page = <<>>
    /\ \E a \in BookActivities : activities = <<a>>
    /\ idx = 1
    /\ attempts = <<>>
    /\ driverLog = <<>>
    /\ pc = "call_book"

\* is_booked = activity.book()
Book ==
    /\ pc = "call_book"
    /\ \E clickRaises \in BOOLEAN, scriptRaises \in BOOLEAN :
           LET b == Activity_book(activities[idx], clickRaises, scriptRaises)
           IN  /\ attempts' = Append(attempts, Attempt(idx, b))
               /\ driverLog' = driverLog \o b.click.log
               /\ raised' = b.raised
    /\ pc' = "returned"
    /\ UNCHANGED <<hourVars, configVars, page, activities, idx>>

BookNext == Book

SpecBook == SpecBookInit /\ [][BookNext]_vars

----------------------------------------------------------------------------
(* The accessors of a JsonConfig on their own, called in any order; the    *)
(* caller goes on after a call that raised.                                *)

MaxDoc == 4      \* entries of the configuration document
MaxCalls == 3    \* accessor calls made on one JsonConfig

SpecConfigInit ==
    /\ HourIdle
    /\ \E d \in DocsUpTo(MaxDoc) : JsonConfig_init(d)
    /\ RunIdle
    /\ pc = "config"

CallWantedClasses ==
    /\ Len(calls) < MaxCalls
    /\ ConfigCallEnds("wanted_classes", JsonConfig_wanted_classes(data, CurrentConfig))
    /\ UNCHANGED <<hourVars, runVars>>

CallWantedHours ==
    /\ Len(calls) < MaxCalls
    /\ ConfigCallEnds("wanted_hours", JsonConfig_wanted_hours(data, CurrentConfig))
    /\ UNCHANGED <<hourVars, runVars>>

CallWantedDays ==
    /\ Len(calls) < MaxCalls
    /\ ConfigCallEnds("wanted_days", JsonConfig_wanted_days(data, CurrentConfig))
    /\ UNCHANGED <<hourVars, runVars>>

ConfigNext ==
    \/ CallWantedClasses
    \/ CallWantedHours
    \/ CallWantedDays

SpecConfig == SpecConfigInit /\ [][ConfigNext]_vars

----------------------------------------------------------------------------
(* Properties.                                                             *)

\* (hour, minute) of token s before (hour, minute) of token t, lexicographically
LexLess(s, t) == s[1] < t[1] \/ (s[1] = t[1] /\ s[2] < t[2])

\* C1: for every Schedule built from "<a> - <c>" and every Hour b,
\* `b in schedule` is true exactly when a < b < c in lexicographic
\* (hour, minute) order; so it is false for b = a and for b = c.
C1_ContainsIsStrictLex ==
    hres["contains"] # Unset =>
        (hres["contains"] = "True" <=> (LexLess(hq.a, hq.b) /\ LexLess(hq.b, hq.c)))

\* C1: the start of a window that is not empty was asked for, and is not in it
C1_Witness ==
    /\ hres["contains"] = "False"
    /\ hq.b = hq.a
    /\ LexLess(hq.a, hq.c)

\* C2: Hour ordering is a strict total order: exactly one of a < b, a == b,
\* a > b is true, and a < b and b < c imply a < c.
C2_StrictTotalOrder ==
    (hres["lt_ab"] # Unset /\ hres["eq"] # Unset /\ hres["gt"] # Unset) =>
        /\ Cardinality({op \in {"lt_ab", "eq", "gt"} : Truthy(hres[op])}) = 1
        /\ (Truthy(hres["lt_ab"]) /\ Truthy(hres["lt_bc"])) => Truthy(hres["lt_ac"])

BookReturned == pc = "returned" /\ Len(attempts) = 1

\* C3: book() on an activity whose counter has no space (places >= total,
\* places > total included) returns False and asks the browser for nothing:
\* neither the element click nor the script click.
C3_NoSpaceNoClick ==
    (BookReturned /\ activities[1].reservation.places >= activities[1].reservation.total) =>
        /\ attempts[1].ret = "False"
        /\ raised = NoException
        /\ driverLog = <<>>

\* C3: book() has returned False on an inverted counter with an enabled button
C3_Witness ==
    /\ BookReturned
    /\ activities[1].reservation.places > activities[1].reservation.total
    /\ activities[1].button._enabled
    /\ attempts[1].ret = "False"

\* C4: book() on an activity with free space whose button was built from the
\* text of the cell raises nothing, clicks nothing, and returns something other
\* than what it returns for a booked class (True).
C4_NoControlOutcome ==
    (/\ BookReturned
     /\ activities[1].reservation.places < activities[1].reservation.total
     /\ ~activities[1].button._enabled) =>
        /\ raised = NoException
        /\ driverLog = <<>>
        /\ attempts[1].ret # "True"

\* The loop of the script stopped at element k of activities with an exception.
LoopAbortedAt(k) ==
    /\ pc = "error"
    /\ idx = k
    /\ raised \in {"AttributeError", "WebDriverException"}

\* C5: a scraped row whose class name is none of the four activity names does
\* not abort the run: the loop never stops with an exception at such a row.
C5_UnknownRowIsSkipped ==
    \A k \in 1..Len(activities) : activities[k].none => ~LoopAbortedAt(k)

\* C6: in book() with free space and an enabled button, the script click is
\* issued once when the element click failed and not at all otherwise, and
\* book() returns True even when the script click fails too.
C6_FallbackOnceThenBooked ==
    (/\ BookReturned
     /\ activities[1].reservation.places < activities[1].reservation.total
     /\ activities[1].button._enabled) =>
        /\ Cardinality({i \in 1..Len(driverLog) : driverLog[i].op = "execute_script"})
               = (IF attempts[1].click.clickFailed THEN 1 ELSE 0)
        /\ attempts[1].ret = "True"
        /\ raised = NoException

\* The loop of the script has ended, normally or with an exception of its own.
LoopOver == pc = "done" \/ (pc = "error" /\ raised \in {"AttributeError", "WebDriverException"})

Attempted(k) == \E j \in 1..Len(attempts) : attempts[j].idx = k

\* C7: the loop attempts book() on every row its conditions select, in table
\* order, whatever happened at the rows before it (booked, no space, click
\* failed).  Stated of tables all of whose rows carry known class names.
C7_EveryMatchAttempted ==
    (LoopOver /\ \A k \in 1..Len(activities) : ~activities[k].none) =>
        /\ \A k \in 1..Len(activities) :
               LoopSelects(activities[k], _classes, Hour(WantedHourToken)) => Attempted(k)
        /\ \A i, j \in 1..Len(attempts) : i < j => attempts[i].idx < attempts[j].idx

\* The wanted filter of the configuration on an activity: its class is one of
\* the configured classes, a configured hour lies strictly inside its window,
\* and the day processed is one of the configured days.
WantedFilter(activity) ==
    /\ activity.name \in SeqRange(_classes)
    /\ \E i \in 1..Len(_hours) :
           /\ LexLess(<<activity.schedule.start.hour, activity.schedule.start.minutes>>,
                      <<_hours[i].hour, _hours[i].minutes>>)
           /\ LexLess(<<_hours[i].hour, _hours[i].minutes>>,
                      <<activity.schedule.end.hour, activity.schedule.end.minutes>>)
    /\ Len(_days) > 0

\* C8: the loop attempts book() on a row exactly when the wanted filter of the
\* configuration (class, target hour strictly inside the window, day) holds
\* of it.
C8_AttemptIffWanted ==
    pc = "done" =>
        \A k \in 1..Len(activities) : Attempted(k) <=> WantedFilter(activities[k])

AllTokens(d) ==
    UNION {UNION {SeqRange(d[i].hours[j].classes) : j \in 1..Len(d[i].hours)} :
              i \in 1..Len(d)}

AllDaysValid(d) == \A i \in 1..Len(d) : JsonConfig_parse_day(d[i].day).ok

FirstLoadOfClasses == Len(calls) = 1 /\ calls[1].fn = "wanted_classes"

SpecVocabulary == {"Open Box", "Crossfit", "Halterofília", "Calisteni"}

ConfigVocabulary == {"Open Box", "Crossfit", "Calisthenics", "Weightlifting"}

\* C9 as stated: loading the wanted classes raises ClassError exactly when
\* some configured class token is outside {"Open Box", "Crossfit",
\* "Halterofília", "Calisteni"}, and the error lists those four names.
C9_ClassErrorIffOutsidePageNames ==
    FirstLoadOfClasses =>
        /\ calls[1].raised = "ClassError" <=> AllTokens(data) \ SpecVocabulary # {}
        /\ calls[1].raised = "ClassError" => calls[1].listed = SpecVocabulary

\* C9, amended: on a configuration whose day keys are valid dates, loading the
\* wanted classes raises ClassError exactly when some configured class token
\* is outside {"Open Box", "Crossfit", "Calisthenics", "Weightlifting"}, and
\* the error lists those four names.
C9_ClassErrorIffOutsideConfigNames ==
    (FirstLoadOfClasses /\ AllDaysValid(data)) =>
        /\ calls[1].raised = "ClassError" <=> AllTokens(data) \ ConfigVocabulary # {}
        /\ calls[1].raised = "ClassError" => calls[1].listed = ConfigVocabulary

\* C9: a load that met "Calisteni" after a class it accepted, and raised
C9_Witness ==
    /\ FirstLoadOfClasses
    /\ AllDaysValid(data)
    /\ "Calisteni" \in AllTokens(data)
    /\ calls[1].raised = "ClassError"
    /\ Len(_classes) > 0

\* The document has no day entry, or no hour entry, or no class entry.
LacksEntries(d) ==
    \/ d = <<>>
    \/ \A i \in 1..Len(d) : d[i].hours = <<>>
    \/ AllTokens(d) = {}

RunOver == pc \in {"done", "error"}

\* C10: a run whose configuration (its day keys valid dates) has no day entry,
\* or no hour entry, or no class entry ends with NoHoursError and nothing
\* else, before any day is opened, any table read or any click made.
C10_NoEntriesIsNoHoursError ==
    (LacksEntries(data) /\ AllDaysValid(data)) =>
        /\ RunOver => raised = "NoHoursError"
        /\ \A i \in 1..Len(driverLog) :
               driverLog[i].op \notin
                   {"get_day", "find_elements", "element.click", "execute_script"}

\* (hour, minute) of token s before or equal to that of token t
LexLeq(s, t) == LexLess(s, t) \/ s = t

\* C11: a <= b is true exactly when (a.hour, a.minutes) is lexicographically
\* less than or equal to (b.hour, b.minutes), and a >= b exactly when it is
\* greater than or equal; so a <= a and a >= a are true.
C11_LeGeAreLex ==
    (hres["le"] # Unset /\ hres["ge"] # Unset) =>
        /\ Truthy(hres["le"]) <=> LexLeq(hq.a, hq.b)
        /\ Truthy(hres["ge"]) <=> LexLeq(hq.b, hq.a)

\* The entries of the document: its days, its hours and its class tokens.
NumDays(d) == Len(d)

RECURSIVE SumOver(_, _, _)
\* f[1] + ... + f[n]
SumOver(f, i, n) == IF i > n THEN 0 ELSE f[i] + SumOver(f, i + 1, n)

NumHours(d) == SumOver([i \in 1..Len(d) |-> Len(d[i].hours)], 1, Len(d))

NumClasses(d) ==
    SumOver([i \in 1..Len(d) |->
                SumOver([j \in 1..Len(d[i].hours) |-> Len(d[i].hours[j].classes)],
                        1, Len(d[i].hours))],
            1, Len(d))

\* C12: after any sequence of calls of wanted_days(), wanted_hours() and
\* wanted_classes(), those that raised included, no stored list has grown by
\* parsing the document again: each holds at most one entry per entry of the
\* document.
C12_ListsNeverGrow ==
    /\ Len(_days) <= NumDays(data)
    /\ Len(_hours) <= NumHours(data)
    /\ Len(_classes) <= NumClasses(data)

\* The browser was asked for a click, by the element or by the script.
PageClicked ==
    \E i \in 1..Len(driverLog) : driverLog[i].op \in {"element.click", "execute_script"}

\* C13: book() never clicks a control whose icon is MINUS: it asks the page
\* for a click only on an enabled button whose icon is PLUS.
C13_ClickOnlyPlus ==
    (BookReturned /\ PageClicked) =>
        /\ activities[1].button._enabled
        /\ activities[1].button._icon = PLUS

====
